---- MODULE Spec2Model ----
(***************************************************************************)
(* Model of the QA test-sequence execution engine                          *)
(* (features/test_sequences/qa_engine.py) and of the UART command/response *)
(* transport it drives (hardware/uart_manager.py).                         *)
(*                                                                         *)
(* Spec      the engine: one worker thread inside execute_sequence, and    *)
(*           the UI thread calling stop(), pause() and resume().           *)
(* SpecStep  one step handler applied to one step (wide step alphabet).    *)
(* SpecUart  UARTManager.send_command polling the serial connection.       *)
(* SpecPaused the engine paused by the UI and stopped during the pause.     *)
(* SpecRuns  two consecutive runs on one engine.                           *)
(* SpecGui   ExecutionWidget's buttons and the ExecutionThreads it starts. *)
(* SpecBuilder  SequenceBuilder and the dict form of a Sequence.            *)
(* SpecProfiles DUTProfileManager and its profiles directory.               *)
(* SpecLoop  the step loop of a run in which every step succeeds.           *)
(* SpecStop  the engine stopped by the UI while a run is announced.         *)
(* SpecApps  AppManager, its apps and its lock.                             *)
(***************************************************************************)
EXTENDS Integers, Sequences, FiniteSets, TLC

VARIABLES
    \* ---- QAEngine fields (qa_engine.py:63-73) and the run's arguments
    sequence,           \* sequence.steps of the sequence being executed
    dut_profile,        \* the DUT profile passed to execute_sequence
    status,             \* self.status (ExecutionStatus)
    step_index,         \* self.step_index
    repeat_count,       \* self.repeat_count
    stop_requested,     \* self.stop_requested
    pause_requested,    \* self.pause_requested
    progress_callback,  \* self.progress_callback: "none", "ok" (never raises)
                        \* or "raises" (can raise on any call)
    current_result,     \* self.current_result: <<>> (None) or <<SequenceResult>>
    returned,           \* value returned by execute_sequence: <<>> or <<SequenceResult>>
    pc,                 \* position of the worker thread in execute_sequence
    \* ---- UARTManager fields (uart_manager.py:20-25) and the serial line
    uart,               \* [is_open, port, baud_rate]
    written,            \* commands written to the serial connection, in order
    \* ---- history of the run (observations, not program state)
    executed,           \* indices of the steps handed to _execute_step, in order
    stopObserved,       \* the loop condition or the pause wait has read
                        \* stop_requested = TRUE
    stopInRun,          \* stop() was called while the step loop was running
                        \* and get_status() was RUNNING or PAUSED
    pauseSeen,          \* the step loop has read pause_requested = TRUE
    notified,           \* the dicts handed to the progress callback, in order
    excEscaped,         \* <<text>> of the exception that left the step loop
    \* ---- history of the engine's use by its caller
    run,                \* "first" or "second" call of execute_sequence
    stopCalls,          \* when stop() was called: "in_run" (after this run
                        \* reset the flags), "after_run" (after a run returned)
    uartLog,            \* serial connections opened and closed, in order
    \* ---- UARTManager.send_command in isolation (SpecUart)
    sc,                 \* state of one send_command call
    \* ---- the GUI host (SpecGui)
    gui,                \* ExecutionWidget's buttons and its ExecutionThreads
    \* ---- the classes around the engine, each under its own specification
    builder,            \* the Sequence a SequenceBuilder is building (SpecBuilder)
    manager,            \* a DUTProfileManager and its profiles directory
                        \* (SpecProfiles)
    apps                \* the AppManager, its apps and the calling threads
                        \* (SpecApps)

vars == <<sequence, dut_profile, status, step_index, repeat_count,
          stop_requested, pause_requested, progress_callback, current_result,
          returned, pc, uart, written, executed, stopObserved, stopInRun,
          pauseSeen, notified, excEscaped, run, stopCalls, uartLog, sc, gui,
          builder, manager, apps>>

libVars == <<builder, manager, apps>>

engineVars == <<sequence, dut_profile, status, step_index, repeat_count,
                stop_requested, pause_requested, progress_callback,
                current_result, returned, pc, uart, written, executed,
                stopObserved, stopInRun, pauseSeen, notified, excEscaped,
                run, stopCalls, uartLog>>

-----------------------------------------------------------------------------
(* Bounds of the model *)

\* longest sequence explored by Spec
MaxLen == 3
\* largest Repeat count explored by Spec
MaxCount == 2
\* most steps one run executes in the model: enough for every pass of a
\* sequence that ends in its only Repeat (a sequence with two Repeat steps can
\* loop for ever)
MaxExec == (MaxCount + 1) * MaxLen
\* capacity of the serial input buffer in lines (SpecUart)
MaxRx == 2
\* task numbers explored by SpecStep reach this far outside the engine's 1..10
TaskMargin == 2
\* most ExecutionThreads the GUI host starts in SpecGui
MaxThreads == 2
\* threads that call the AppManager and its apps in SpecApps
MaxCallers == 2

-----------------------------------------------------------------------------
(* Optional values: Python's None is <<>>, a present value v is <<v>> *)

None == <<>>
Some(v) == <<v>>

\* dict.get(key) -> None when the key is absent
Get(params, key) == IF key \in DOMAIN params THEN Some(params[key]) ELSE None

\* dict.get(key, default)
GetOr(params, key, default) == IF key \in DOMAIN params THEN params[key] ELSE default

-----------------------------------------------------------------------------
(* ExecutionStatus, qa_engine.py:14-21 *)

IDLE == "idle"
RUNNING == "running"
PAUSED == "paused"
COMPLETED == "completed"
FAILED == "failed"
STOPPED == "stopped"

ExecutionStatus == {IDLE, RUNNING, PAUSED, COMPLETED, FAILED, STOPPED}

-----------------------------------------------------------------------------
(* Steps: SequenceStep(type, params), sequence_builder.py:20-29 *)

WAKE == "wake"
TASK == "task"
SLEEP == "sleep"
WAIT == "wait"
REPEAT == "repeat"
PASS == "pass"
FAIL == "fail"

Step(type, params) == [type |-> type, params |-> params]

TaskStep(n) == Step(TASK, [number |-> n])
RepeatStep(c) == Step(REPEAT, [count |-> c])
PassStep == Step(PASS, [message |-> "Pass"])
FailStep == Step(FAIL, [message |-> "Fail"])
WaitStep == Step(WAIT, [duration |-> 0, unit |-> "ms"])

-----------------------------------------------------------------------------
(* UARTManager, uart_manager.py *)

\* what the device and the serial driver do in answer to one command, as the
\* engine sees it: an OK line, an ERR line, nothing before the timeout, an
\* I/O exception before the command is written, or one after
Replies == {"OK", "ERR", "silent", "ioerror_before", "ioerror_after"}

\* UARTManager.is_open
UartIsOpen(u) == u.is_open

\* the (success, response) pairs send_command returns, and whether it wrote
Ret(ok, response, cmds) == [ok |-> ok, response |-> response, wrote |-> cmds]

\* mutant: a command that gets no answer is sent again
SendCommandRetries(u, command, reply) ==
    IF ~UartIsOpen(u) THEN Ret(FALSE, "UART not open", <<>>)
    ELSE IF reply = "ioerror_before" THEN Ret(FALSE, "Error sending command: io", <<>>)
    ELSE IF reply = "ioerror_after" THEN Ret(FALSE, "Error sending command: io", <<command>>)
    ELSE IF reply = "OK" THEN Ret(TRUE, "OK", <<command>>)
    ELSE IF reply = "ERR" THEN Ret(FALSE, "ERR", <<command>>)
    ELSE Ret(FALSE, "Timeout waiting for response", <<command, command>>)

\* UARTManager.send_command as one atomic round trip
SendCommand(u, command, reply) ==
    IF ~UartIsOpen(u) THEN Ret(FALSE, "UART not open", <<>>)
    ELSE IF reply = "ioerror_before" THEN Ret(FALSE, "Error sending command: io", <<>>)
    ELSE IF reply = "ioerror_after" THEN Ret(FALSE, "Error sending command: io", <<command>>)
    ELSE IF reply = "OK" THEN Ret(TRUE, "OK", <<command>>)
    ELSE IF reply = "ERR" THEN Ret(FALSE, "ERR", <<command>>)
    ELSE Ret(FALSE, "Timeout waiting for response", <<command>>)

\* mutant: the transport accepts the engine's range 1..10
SendTaskWide(u, task_number, reply) ==
    IF task_number < 1 \/ task_number > 10
    THEN Ret(FALSE, "Task number must be 1-4", <<>>)
    ELSE SendCommand(u, "TASK " \o ToString(task_number), reply)

\* UARTManager.send_task
SendTask(u, task_number, reply) ==
    IF task_number < 1 \/ task_number > 4
    THEN Ret(FALSE, "Task number must be 1-4", <<>>)
    ELSE SendCommand(u, "TASK " \o ToString(task_number), reply)

\* str.upper on the mode strings the model uses
Upper(mode) ==
    CASE mode = "deep" -> "DEEP"
      [] mode = "light" -> "LIGHT"
      [] OTHER -> mode

ValidModes == {"ACTIVE", "LIGHT", "DEEP", "SHUTDOWN"}

\* the text send_sleep returns for a mode it rejects
InvalidMode == "Invalid sleep mode. Must be one of: ['ACTIVE', 'LIGHT', 'DEEP', 'SHUTDOWN']"

\* mutant: the mode is sent without being looked at
SendSleepUnchecked(u, mode, reply) == SendCommand(u, "SLEEP " \o Upper(mode), reply)

\* UARTManager.send_sleep
SendSleep(u, mode, reply) ==
    IF Upper(mode) \notin ValidModes
    THEN Ret(FALSE, InvalidMode, <<>>)
    ELSE SendCommand(u, "SLEEP " \o Upper(mode), reply)

-----------------------------------------------------------------------------
(* Step handlers, qa_engine.py:230-327.  Each yields the StepResult's        *)
(* success and message, and the commands it wrote to the serial connection. *)

HandlerResult(success, message, cmds) ==
    [raised |-> FALSE, success |-> success, message |-> message, wrote |-> cmds]

\* a handler left by an exception with the given text
Raise(text, cmds) == [raised |-> TRUE, text |-> text, wrote |-> cmds]

\* time.sleep raises ValueError on a negative length
SleepError == "sleep length must be non-negative"

\* QAEngine._convert_duration followed by time.sleep: does it raise
SleepRaises(duration) == duration < 0

\* Python's "a or b" on optional integers: None and 0 are falsy
PyOr(a, b) == IF a = None \/ a = Some(0) THEN b ELSE a

\* "response or default" on strings: the empty string is falsy
PyOrStr(a, b) == IF a = "" THEN b ELSE a

\* QAEngine._execute_wake
ExecuteWake(step, profile) ==
    LET gpio == PyOr(Get(step.params, "gpio"), profile.gpio_wake)
    IN  IF gpio = None
        THEN HandlerResult(FALSE, "No GPIO specified for wake", <<>>)
        ELSE HandlerResult(TRUE, "Wake via GPIO " \o ToString(gpio[1]), <<>>)

\* QAEngine._execute_task
ExecuteTask(step, u, reply) ==
    LET task_number == Get(step.params, "number")
    IN  IF task_number = None
        THEN HandlerResult(FALSE, "Task number not specified", <<>>)
        ELSE IF task_number[1] < 1 \/ task_number[1] > 10
        THEN HandlerResult(FALSE,
                 "Invalid task number: " \o ToString(task_number[1]) \o " (must be 1-10)",
                 <<>>)
        ELSE LET r == SendTask(u, task_number[1], reply)
             IN  HandlerResult(r.ok,
                     PyOrStr(r.response, "Task " \o ToString(task_number[1]) \o " executed"),
                     r.wrote)

\* QAEngine._execute_sleep
ExecuteSleep(step, u, reply) ==
    LET mode == GetOr(step.params, "mode", "DEEP")
        duration == Get(step.params, "duration")
        r == SendSleep(u, mode, reply)
    IN  IF duration # None /\ SleepRaises(duration[1])
        THEN \* the except clause at 293-294 replaces the message only
             HandlerResult(r.ok, "Sleep command failed: " \o SleepError, r.wrote)
        ELSE HandlerResult(r.ok,
                 PyOrStr(r.response, "Sleep mode " \o mode \o " commanded"),
                 r.wrote)

\* QAEngine._execute_wait
ExecuteWait(step) ==
    IF SleepRaises(GetOr(step.params, "duration", 0))
    THEN Raise(SleepError, <<>>)
    ELSE HandlerResult(TRUE,
             "Waited " \o ToString(GetOr(step.params, "duration", 0)) \o " "
                       \o GetOr(step.params, "unit", "ms"),
             <<>>)

\* QAEngine._execute_repeat
ExecuteRepeat(step) == HandlerResult(TRUE, "Repeat step", <<>>)

\* QAEngine._execute_pass
ExecutePass(step) == HandlerResult(TRUE, GetOr(step.params, "message", "Pass"), <<>>)

\* QAEngine._execute_fail
ExecuteFail(step) == HandlerResult(FALSE, GetOr(step.params, "message", "Fail"), <<>>)

\* the except clause of QAEngine._execute_step, qa_engine.py:222-224
Catch(h) ==
    IF h.raised
    THEN HandlerResult(FALSE, "Error executing step: " \o h.text, h.wrote)
    ELSE h

\* the dispatch of QAEngine._execute_step under its try, qa_engine.py:205-224
Dispatch(step, profile, u, reply) ==
    Catch(CASE step.type = WAKE -> ExecuteWake(step, profile)
            [] step.type = TASK -> ExecuteTask(step, u, reply)
            [] step.type = SLEEP -> ExecuteSleep(step, u, reply)
            [] step.type = WAIT -> ExecuteWait(step)
            [] step.type = REPEAT -> ExecuteRepeat(step)
            [] step.type = PASS -> ExecutePass(step)
            [] step.type = FAIL -> ExecuteFail(step)
            [] OTHER -> HandlerResult(FALSE, "Unknown step type: " \o step.type, <<>>))

\* StepResult(step, success, message), qa_engine.py:24-32
StepResult(step, h) == [step |-> step, success |-> h.success, message |-> h.message]

-----------------------------------------------------------------------------
(* SequenceResult, qa_engine.py:35-46 (name and wall-clock times left out) *)

SequenceResult(st, msg) ==
    [status |-> st, step_results |-> <<>>, pass_count |-> 0, fail_count |-> 0,
     error_message |-> msg]

\* mutant: the failure is reported without a message
OpenFailedResultNoMessage(profile) == SequenceResult(FAILED, "")

\* the result returned when the UART cannot be opened, qa_engine.py:119-124
OpenFailedResult(profile) ==
    SequenceResult(FAILED,
        "Failed to open UART port " \o profile.uart_port
            \o ". Check permissions and that no other program is using it.")

\* the connections closed and opened by a call of open() that does not
\* reuse the open connection, uart_manager.py:57-69
OpenEvents(u, driverOk) ==
    (IF u.is_open THEN <<"close">> ELSE <<>>)
        \o (IF driverOk THEN <<"open">> ELSE <<>>)

\* mutant: open() does not look for a connection to reuse
UartOpenAlwaysReopens(u, port, baud_rate, driverOk) ==
    IF driverOk
    THEN [uart |-> [is_open |-> TRUE, port |-> Some(port), baud_rate |-> baud_rate],
          ok |-> TRUE, events |-> OpenEvents(u, driverOk)]
    ELSE [uart |-> [is_open |-> FALSE,
                    port |-> IF u.is_open THEN None ELSE u.port,
                    baud_rate |-> u.baud_rate],
          ok |-> FALSE, events |-> OpenEvents(u, driverOk)]

\* UARTManager.open, uart_manager.py:52-96; driverOk: serial.Serial(...) succeeds
UartOpen(u, port, baud_rate, driverOk) ==
    IF u.is_open /\ u.port = Some(port) /\ u.baud_rate = baud_rate
    THEN [uart |-> u, ok |-> TRUE, events |-> <<>>]
    ELSE IF driverOk
    THEN [uart |-> [is_open |-> TRUE, port |-> Some(port), baud_rate |-> baud_rate],
          ok |-> TRUE, events |-> OpenEvents(u, driverOk)]
    ELSE [uart |-> [is_open |-> FALSE,
                    port |-> IF u.is_open THEN None ELSE u.port,
                    baud_rate |-> u.baud_rate],
          ok |-> FALSE, events |-> OpenEvents(u, driverOk)]

\* mutant: a failed step does not end the loop
AfterStepPcNoBreak(success) == "loop"

\* where the loop goes after a step: "break" on failure, qa_engine.py:149-158
AfterStepPc(success) == IF success THEN "loop" ELSE "finalize"

\* mutant: the Repeat comparison is off by one
RepeatJumpOffByOne(step, idx, rc) ==
    IF step.type = REPEAT
    THEN IF rc + 1 < GetOr(step.params, "count", 1)
         THEN [step_index |-> 0, repeat_count |-> rc + 1]
         ELSE [step_index |-> idx + 2, repeat_count |-> 0]
    ELSE [step_index |-> idx + 1, repeat_count |-> rc]

\* step_index and repeat_count after a successful step at idx, qa_engine.py:158-168
RepeatJump(step, idx, rc) ==
    IF step.type = REPEAT
    THEN IF rc < GetOr(step.params, "count", 1)
         THEN [step_index |-> 0, repeat_count |-> rc + 1]
         ELSE [step_index |-> (idx + 1) + 1, repeat_count |-> 0]
    ELSE [step_index |-> idx + 1, repeat_count |-> rc]

\* mutant: a failed step is counted as a pass as well
CountStepPassesAll(cr, sr) ==
    IF sr.success
    THEN [cr EXCEPT !.step_results = Append(@, sr), !.pass_count = @ + 1]
    ELSE [cr EXCEPT !.step_results = Append(@, sr), !.pass_count = @ + 1,
                    !.fail_count = @ + 1, !.error_message = sr.message]

\* mutant: a failed step is appended and not counted
CountStepForgetsFailure(cr, sr) ==
    IF sr.success
    THEN [cr EXCEPT !.step_results = Append(@, sr), !.pass_count = @ + 1]
    ELSE [cr EXCEPT !.step_results = Append(@, sr), !.error_message = sr.message]

\* current_result after the step's StepResult is appended and counted,
\* qa_engine.py:147-156
CountStep(cr, sr) ==
    IF sr.success
    THEN [cr EXCEPT !.step_results = Append(@, sr), !.pass_count = @ + 1]
    ELSE [cr EXCEPT !.step_results = Append(@, sr), !.fail_count = @ + 1,
                    !.error_message = sr.message]

\* mutant: the exception leaves execute_sequence
ExceptPcPropagates == "raised"

\* where the worker goes from the except clause: on to the return at
\* qa_engine.py:190
ExceptPc == "return"

\* current_result after the except clause of the step loop, qa_engine.py:180-184
LoopExcept(cr, text) == [cr EXCEPT !.status = FAILED, !.error_message = text]

\* mutant: the callback is told the index after it was advanced
ProgressDictAdvanced(idx, total, st) ==
    [step_index |-> idx + 1, total_steps |-> total, status |-> st]

\* the dict _notify_progress hands to the callback, qa_engine.py:89-94
\* (message left out)
ProgressDict(idx, total, st) ==
    [step_index |-> idx, total_steps |-> total, status |-> st]

\* what a call of the progress callback can do: a callback that can raise
\* may do so on any call
CallbackRaises(cb) == IF cb = "raises" THEN BOOLEAN ELSE {FALSE}

CallbackError == "callback error"

\* mutant: the flags of the previous run are kept
FlagsKept == [stop |-> stop_requested, pause |-> pause_requested]

\* the flags at the start of a run, qa_engine.py:113-114
FlagsAtStart == [stop |-> FALSE, pause |-> FALSE]

\* mutant: the pause wait goes on after stop()
StillPausedIgnoresStop(pause, stop) == pause

\* mutant: the pause wait does not wait
StillPausedNever(pause, stop) == FALSE

\* the condition of the pause wait, qa_engine.py:140
StillPaused(pause, stop) == pause /\ ~stop

-----------------------------------------------------------------------------
(* QAEngine.execute_sequence, the worker thread *)

CR == current_result[1]

calls == <<run, stopCalls, uartLog>>

history == <<executed, stopObserved, stopInRun, pauseSeen, notified, excEscaped,
             calls>>

\* qa_engine.py:108-112: the run is announced as RUNNING
Start ==
    /\ pc = "idle"
    /\ status' = RUNNING
    /\ step_index' = 0
    /\ repeat_count' = 0
    /\ pc' = "reset_flags"
    /\ UNCHANGED <<sequence, dut_profile, stop_requested, pause_requested,
                   progress_callback, current_result, returned, uart, written,
                   history, sc, gui, libVars>>

\* qa_engine.py:113-114: the flags are cleared
ResetFlags ==
    /\ pc = "reset_flags"
    /\ stop_requested' = FlagsAtStart.stop
    /\ pause_requested' = FlagsAtStart.pause
    /\ pc' = "open"
    /\ UNCHANGED <<sequence, dut_profile, status, step_index, repeat_count,
                   progress_callback, current_result, returned, uart, written,
                   history, sc, gui, libVars>>

\* qa_engine.py:118-133: open the UART; return FAILED at once when it fails
OpenUart ==
    /\ pc = "open"
    /\ \E driverOk \in BOOLEAN :
         LET o == UartOpen(uart, dut_profile.uart_port, dut_profile.uart_baud, driverOk)
         IN  /\ uart' = o.uart
             /\ uartLog' = uartLog \o o.events
             /\ IF o.ok
                THEN /\ current_result' = Some(SequenceResult(RUNNING, ""))
                     /\ pc' = "loop"
                     /\ UNCHANGED <<status, returned>>
                ELSE /\ returned' = Some(OpenFailedResult(dut_profile))
                     /\ status' = FAILED
                     /\ pc' = "done"
                     /\ UNCHANGED current_result
    /\ UNCHANGED <<sequence, dut_profile, step_index, repeat_count,
                   stop_requested, pause_requested, progress_callback, written,
                   executed, stopObserved, stopInRun, pauseSeen, notified,
                   excEscaped, run, stopCalls, sc, gui, libVars>>

\* qa_engine.py:137: while self.step_index < len(steps) and not self.stop_requested
LoopCond ==
    /\ pc = "loop"
    /\ pc' = IF step_index < Len(sequence) /\ ~stop_requested
             THEN "pause_check" ELSE "finalize"
    /\ stopObserved' = (stopObserved \/ (step_index < Len(sequence) /\ stop_requested))
    /\ UNCHANGED <<sequence, dut_profile, status, step_index, repeat_count,
                   stop_requested, pause_requested, progress_callback,
                   current_result, returned, uart, written, executed, stopInRun,
                   pauseSeen, notified, excEscaped, calls, sc, gui, libVars>>

\* qa_engine.py:138-139: if self.pause_requested: status = PAUSED
PauseCheck ==
    /\ pc = "pause_check"
    /\ IF pause_requested
       THEN status' = PAUSED /\ pc' = "pause_wait" /\ pauseSeen' = TRUE
       ELSE pc' = "exec" /\ UNCHANGED <<status, pauseSeen>>
    /\ UNCHANGED <<sequence, dut_profile, step_index, repeat_count,
                   stop_requested, pause_requested, progress_callback,
                   current_result, returned, uart, written, executed,
                   stopObserved, stopInRun, notified, excEscaped, calls, sc, gui, libVars>>

\* qa_engine.py:140-141: while pause_requested and not stop_requested: sleep(0.1)
PauseWait ==
    /\ pc = "pause_wait"
    /\ pc' = IF StillPaused(pause_requested, stop_requested)
             THEN "pause_wait" ELSE "pause_exit"
    /\ stopObserved' = (stopObserved \/ (pause_requested /\ stop_requested))
    /\ UNCHANGED <<sequence, dut_profile, status, step_index, repeat_count,
                   stop_requested, pause_requested, progress_callback,
                   current_result, returned, uart, written, executed, stopInRun,
                   pauseSeen, notified, excEscaped, calls, sc, gui, libVars>>

\* qa_engine.py:142-143: if not stop_requested: status = RUNNING; the code then
\* goes on to line 145 in either case
PauseExit ==
    /\ pc = "pause_exit"
    /\ status' = IF ~stop_requested THEN RUNNING ELSE status
    /\ pc' = "exec"
    /\ UNCHANGED <<sequence, dut_profile, step_index, repeat_count,
                   stop_requested, pause_requested, progress_callback,
                   current_result, returned, uart, written, history, sc, gui, libVars>>

\* qa_engine.py:145-168 with _execute_step (192-228): run the handler under
\* the try of _execute_step, notify the progress callback (line 227, outside
\* that try), append and count the StepResult, advance.  An exception that
\* leaves _execute_step (the handler's, if it is not caught there, or the
\* callback's) is caught at qa_engine.py:180-184.
ExecStep ==
    /\ pc = "exec"
    /\ Len(executed) < MaxExec
    /\ \E reply \in Replies, raises \in CallbackRaises(progress_callback) :
         LET step == sequence[step_index + 1]
             h == Dispatch(step, dut_profile, uart, reply)
             j == RepeatJump(step, step_index, repeat_count)
         IN  /\ written' = written \o h.wrote
             /\ executed' = Append(executed, step_index)
             /\ notified' =
                  IF progress_callback = "none" \/ h.raised
                  THEN notified
                  ELSE Append(notified,
                              ProgressDict(step_index, Len(sequence), status))
             /\ IF h.raised \/ raises
                THEN LET text == IF h.raised THEN h.text ELSE CallbackError
                     IN  /\ status' = FAILED
                         /\ current_result' = Some(LoopExcept(CR, text))
                         /\ excEscaped' = Some(text)
                         /\ pc' = ExceptPc
                         /\ UNCHANGED <<step_index, repeat_count>>
                ELSE LET sr == StepResult(step, h)
                     IN  /\ current_result' = Some(CountStep(CR, sr))
                         /\ pc' = AfterStepPc(sr.success)
                         /\ excEscaped' = excEscaped
                         /\ IF sr.success
                            THEN /\ step_index' = j.step_index
                                 /\ repeat_count' = j.repeat_count
                                 /\ UNCHANGED status
                            ELSE /\ status' = FAILED
                                 /\ UNCHANGED <<step_index, repeat_count>>
    /\ UNCHANGED <<sequence, dut_profile, stop_requested, pause_requested,
                   progress_callback, returned, uart, stopObserved, stopInRun,
                   pauseSeen, calls, sc, gui, libVars>>

\* the status the run ends with, qa_engine.py:171-172
FinalStatus(st, stop) == IF ~stop /\ st = RUNNING THEN COMPLETED ELSE st

\* qa_engine.py:171-178
Finalize ==
    /\ pc = "finalize"
    /\ status' = FinalStatus(status, stop_requested)
    /\ current_result' = Some([CR EXCEPT !.status = FinalStatus(status, stop_requested)])
    /\ pc' = "return"
    /\ UNCHANGED <<sequence, dut_profile, step_index, repeat_count,
                   stop_requested, pause_requested, progress_callback, returned,
                   uart, written, history, sc, gui, libVars>>

\* qa_engine.py:190
Return ==
    /\ pc = "return"
    /\ returned' = current_result
    /\ pc' = "done"
    /\ UNCHANGED <<sequence, dut_profile, status, step_index, repeat_count,
                   stop_requested, pause_requested, progress_callback,
                   current_result, uart, written, history, sc, gui, libVars>>

-----------------------------------------------------------------------------
(* The UI thread: QAEngine.stop / pause / resume, qa_engine.py:349-359 *)

InStepLoop == pc \in {"loop", "pause_check", "pause_wait", "pause_exit", "exec"}

\* the worker is past the reset of the flags and has not returned
AfterReset == pc = "open" \/ InStepLoop \/ pc \in {"finalize", "return"}

Stop ==
    /\ stop_requested' = TRUE
    /\ stopInRun' = (stopInRun \/ (InStepLoop /\ status \in {RUNNING, PAUSED}))
    /\ stopCalls' = stopCalls \cup (IF AfterReset THEN {"in_run"}
                                    ELSE IF pc = "done" THEN {"after_run"}
                                    ELSE {})
    /\ UNCHANGED <<sequence, dut_profile, status, step_index, repeat_count,
                   pause_requested, progress_callback, current_result, returned,
                   pc, uart, written, executed, stopObserved, pauseSeen,
                   notified, excEscaped, run, uartLog, sc, gui, libVars>>

Pause ==
    /\ pause_requested' = TRUE
    /\ UNCHANGED <<sequence, dut_profile, status, step_index, repeat_count,
                   stop_requested, progress_callback, current_result, returned,
                   pc, uart, written, history, sc, gui, libVars>>

Resume ==
    /\ pause_requested' = FALSE
    /\ UNCHANGED <<sequence, dut_profile, status, step_index, repeat_count,
                   stop_requested, progress_callback, current_result, returned,
                   pc, uart, written, history, sc, gui, libVars>>

-----------------------------------------------------------------------------
(* The engine's specification *)

\* the steps Spec builds its sequences from
EngineSteps ==
    {TaskStep(1), PassStep, FailStep}
        \cup {RepeatStep(c) : c \in 1..MaxCount}

RECURSIVE SeqsUpTo(_, _)
SeqsUpTo(S, n) ==
    IF n = 0 THEN {<<>>}
    ELSE LET shorter == SeqsUpTo(S, n - 1)
         IN  shorter \cup {Append(q, x) : q \in shorter, x \in S}

DefaultProfile ==
    [uart_port |-> "/dev/ttyUSB0", uart_baud |-> 115200, gpio_wake |-> None]

ScIdle == [pc |-> "unused"]

\* the builder, the profile manager and the app manager are not in use
LibIdle ==
    /\ builder = [pc |-> "unused"]
    /\ manager = [pc |-> "unused"]
    /\ apps = [pc |-> "unused"]

\* ExecutionWidget after setup_ui, qa_test_sequences_section.py:1323-1335:
\* Start enabled, Pause and Stop disabled, no ExecutionThread yet
GuiInit ==
    [start_enabled |-> TRUE, pause_enabled |-> FALSE, stop_enabled |-> FALSE,
     threads |-> <<>>, finished |-> <<>>]

\* QAEngine.__init__ and UARTManager.__init__
EngineInit(seqs, profiles) ==
    /\ sequence \in seqs
    /\ dut_profile \in profiles
    /\ status = IDLE
    /\ step_index = 0
    /\ repeat_count = 0
    /\ stop_requested = FALSE
    /\ pause_requested = FALSE
    /\ progress_callback \in {"none", "ok", "raises"}
    /\ current_result = None
    /\ returned = None
    /\ pc = "idle"
    /\ uart = [is_open |-> FALSE, port |-> None, baud_rate |-> 115200]
    /\ written = <<>>
    /\ executed = <<>>
    /\ stopObserved = FALSE
    /\ stopInRun = FALSE
    /\ pauseSeen = FALSE
    /\ notified = <<>>
    /\ excEscaped = None
    /\ run = "first"
    /\ stopCalls = {}
    /\ uartLog = <<>>
    /\ gui = GuiInit

\* every run with a callback that never raises is also a run with one that
\* can raise and does not: Spec leaves the former out
Init ==
    /\ EngineInit(SeqsUpTo(EngineSteps, MaxLen), {DefaultProfile})
    /\ progress_callback # "ok"
    /\ sc = ScIdle
    /\ LibIdle

Worker ==
    \/ Start \/ ResetFlags \/ OpenUart \/ LoopCond \/ PauseCheck \/ PauseWait
    \/ PauseExit \/ ExecStep \/ Finalize \/ Return

Next == Worker \/ Stop \/ Pause \/ Resume

Spec == Init /\ [][Next]_vars

-----------------------------------------------------------------------------
(* Properties of the engine (Spec) *)

HasResult == current_result # None
SR == CR.step_results
Ret1 == returned[1]

\* C1: first failure halts.  A StepResult with success = False is the last
\* element of step_results and the last step executed; fail_count is 1, the
\* loop has been left, the engine's status is FAILED, error_message is the
\* failing step's message, and the returned result carries both.
C1_FirstFailureHalts ==
    HasResult =>
        \A k \in 1..Len(SR) :
            ~SR[k].success =>
                /\ k = Len(SR)
                /\ Len(executed) = k
                /\ CR.fail_count = 1
                /\ pc \in {"finalize", "return", "done"}
                /\ status = FAILED
                /\ CR.error_message = SR[k].message
                /\ pc = "done" =>
                      /\ Ret1.status = FAILED
                      /\ Ret1.error_message = SR[k].message
                      /\ Ret1.step_results = SR

\* a 3-step sequence whose second step failed has returned
C1_Witness ==
    /\ pc = "done" /\ HasResult /\ Len(sequence) = 3
    /\ Len(SR) = 2 /\ SR[1].success /\ ~SR[2].success
    /\ Ret1.status = FAILED

\* no exception escaped the step loop (the except block, qa_engine.py:180-184,
\* was not entered)
NoException == excEscaped = None

\* C2: a run during which stop() was called while the step loop was running
\* (status RUNNING or PAUSED), and in which no step failed, returns STOPPED
\* and leaves the engine's status STOPPED.
C2_StopYieldsStopped ==
    (pc = "done" /\ HasResult /\ stopInRun /\ CR.fail_count = 0 /\ NoException)
        => (Ret1.status = STOPPED /\ status = STOPPED)

\* C3: once the loop condition or the pause wait has read the stop flag set,
\* no further step is executed and no StepResult is appended.
C3_NoStepAfterStopObserved ==
    [][stopObserved => (executed' = executed /\ current_result'[1].step_results = SR)]_vars

\* the sequence ends in its only Repeat step, with count >= 1
RepeatLast(seq) ==
    /\ Len(seq) >= 1
    /\ seq[Len(seq)].type = REPEAT
    /\ GetOr(seq[Len(seq)].params, "count", 1) >= 1
    /\ \A i \in 1..(Len(seq) - 1) : seq[i].type # REPEAT

\* C4: Repeat jump.  A run of a sequence that ends in its only Repeat(N),
\* N >= 1, in which every step succeeded and no stop was requested, returns
\* N+1 consecutive passes over the whole sequence, repeat_count 0 and
\* COMPLETED.
C4_RepeatJump ==
    (pc = "done" /\ HasResult /\ RepeatLast(sequence) /\ ~stop_requested
        /\ Ret1.status # FAILED)
    => LET L == Len(sequence)
           N == GetOr(sequence[L].params, "count", 1)
       IN  /\ Len(Ret1.step_results) = (N + 1) * L
           /\ \A k \in 1..Len(Ret1.step_results) :
                 /\ Ret1.step_results[k].step = sequence[((k - 1) % L) + 1]
                 /\ Ret1.step_results[k].success
                 /\ executed[k] = (k - 1) % L
           /\ Ret1.pass_count = (N + 1) * L
           /\ repeat_count = 0
           /\ Ret1.status = COMPLETED
           /\ status = COMPLETED

\* [Task(1), Repeat(2)] has run to its end: Task,Repeat,Task,Repeat,Task,Repeat
C4_Witness ==
    /\ pc = "done" /\ HasResult
    /\ sequence = <<TaskStep(1), RepeatStep(2)>>
    /\ Len(Ret1.step_results) = 6
    /\ Ret1.status = COMPLETED

\* C5: steps execute strictly in order: the step executed after the step at
\* index i is the one at i+1, or the one at 0 when step i is a Repeat; so the
\* step right after an exhausted Repeat is executed next.
C5_StrictOrder ==
    \A k \in 2..Len(executed) :
        \/ executed[k] = executed[k - 1] + 1
        \/ (sequence[executed[k - 1] + 1].type = REPEAT /\ executed[k] = 0)

\* C6: every returned SequenceResult has a terminal status.
C6_TerminalStatus ==
    pc = "done" => Ret1.status \in {COMPLETED, FAILED, STOPPED}

\* C7: when the UART is not open after the open attempt, execute_sequence has
\* returned FAILED with a non-empty error_message, no step results and zero
\* counts; no step handler ran and nothing was written to the transport.
C7_OpenFailure ==
    (pc \notin {"idle", "reset_flags", "open"} /\ ~uart.is_open)
        => /\ pc = "done"
           /\ status = FAILED
           /\ Ret1.status = FAILED
           /\ Ret1.error_message # ""
           /\ Ret1.step_results = <<>>
           /\ Ret1.pass_count = 0 /\ Ret1.fail_count = 0
           /\ executed = <<>>
           /\ written = <<>>

\* the open failed for a sequence that has steps to run
C7_Witness ==
    /\ pc = "done" /\ ~uart.is_open /\ Len(sequence) >= 2
    /\ Ret1.status = FAILED

-----------------------------------------------------------------------------
(* One step handler at a time (SpecStep): the worker thread alone, on       *)
(* one-step sequences drawn from a wide step alphabet                       *)

WideTaskNumbers == (1 - TaskMargin)..(10 + TaskMargin)

WideSteps ==
    {TaskStep(n) : n \in WideTaskNumbers}
        \cup {Step(TASK, [description |-> "no number"])}
        \cup {Step(WAKE, [gpio |-> g]) : g \in {0, 17}}
        \cup {Step(WAKE, [note |-> "no gpio"])}
        \cup {Step(SLEEP, [mode |-> m]) :
                 m \in {"DEEP", "deep", "LIGHT", "ACTIVE", "SHUTDOWN", "HIBERNATE", ""}}
        \cup {Step(SLEEP, [unit |-> "seconds"])}
        \cup {Step(SLEEP, [mode |-> m, duration |-> d, unit |-> "seconds"]) :
                 m \in {"DEEP", "HIBERNATE"}, d \in {0, -1}}
        \cup {Step(WAIT, [duration |-> -1, unit |-> "ms"])}
        \cup {WaitStep, RepeatStep(1), PassStep, FailStep,
              Step(PASS, [note |-> "no message"]), Step(FAIL, [note |-> "no message"])}

WideProfiles ==
    {[DefaultProfile EXCEPT !.gpio_wake = g] : g \in {None, Some(0), Some(4)}}

InitStep ==
    /\ EngineInit({<<s>> : s \in WideSteps}, WideProfiles)
    /\ sc = ScIdle
    /\ LibIdle

NextStep ==
    \/ Start \/ ResetFlags \/ OpenUart \/ LoopCond \/ PauseCheck \/ ExecStep
    \/ Finalize \/ Return

SpecStep == InitStep /\ [][NextStep]_vars

\* the commands "TASK n" for n outside 1..4
BadTaskCommands == {"TASK " \o ToString(n) : n \in WideTaskNumbers \ (1..4)}

-----------------------------------------------------------------------------
(* UARTManager.send_command step by step (SpecUart), uart_manager.py:114-170 *)
(*                                                                          *)
(* sc.rx is the serial input buffer, holding whole lines as the device sent *)
(* them (the newline left out); sc.elapsed is time.time() - start_time in   *)
(* whole seconds.  The device may emit a line at any moment and without     *)
(* end; a serial exception may be raised by any call on the connection.     *)

\* timeout = 2.0, uart_manager.py:144
Timeout == 2

\* lines the device emits, as raw text
RawLines ==
    {"OK 1", " OK 1 ", "ERR 2", "HEARTBEAT 7", "[dbg] OK", "CMD: TASK 1", "junk", ""}

\* str.startswith
StartsWith(str, prefix) ==
    Len(str) >= Len(prefix) /\ SubSeq(str, 1, Len(prefix)) = prefix

\* str.strip on the blanks of a line
RECURSIVE Strip(_)
Strip(str) ==
    IF Len(str) = 0 THEN str
    ELSE IF SubSeq(str, 1, 1) = " " THEN Strip(SubSeq(str, 2, Len(str)))
    ELSE IF SubSeq(str, Len(str), Len(str)) = " " THEN Strip(SubSeq(str, 1, Len(str) - 1))
    ELSE str

\* mutant: an unexpected line ends the wait as a failure
ClassifyStrict(response) ==
    IF StartsWith(response, "HEARTBEAT") \/ StartsWith(response, "[")
           \/ StartsWith(response, "CMD:")
    THEN "skip"
    ELSE IF StartsWith(response, "OK") THEN "ok"
    ELSE "err"

\* what the poll loop does with a line it read, uart_manager.py:150-161
Classify(response) ==
    IF StartsWith(response, "HEARTBEAT") \/ StartsWith(response, "[")
           \/ StartsWith(response, "CMD:")
    THEN "skip"
    ELSE IF StartsWith(response, "OK") THEN "ok"
    ELSE IF StartsWith(response, "ERR") THEN "err"
    ELSE "skip"

\* mutant: the loop never gives up
WindowOpenForEver(elapsed) == TRUE

\* the loop condition (time.time() - start_time) < timeout, uart_manager.py:146
WindowOpen(elapsed) == elapsed < Timeout

ScRet(ok, response) == [ok |-> ok, response |-> response]

ScDone(ok, response) ==
    [sc EXCEPT !.pc = "done", !.ret = Some(ScRet(ok, response))]

IsFinal(line) == StartsWith(line, "OK") \/ StartsWith(line, "ERR")

\* mutant: the input buffer is not reset before the write
ResetInputBufferKeeps(rx) == rx

\* connection.reset_input_buffer(), uart_manager.py:131
ResetInputBuffer(rx) == <<>>

\* the device emits a line into the input buffer; a line that arrives before
\* send_command has reset the buffer is stale
DeviceEmit ==
    /\ sc.pc \in {"call", "poll"}
    /\ Len(sc.rx) < MaxRx
    /\ \E line \in RawLines :
         sc' = IF sc.pc = "call"
               THEN [sc EXCEPT !.rx = Append(@, line),
                               !.stale = @ + 1,
                               !.staleFinal = @ \/ IsFinal(Strip(line))]
               ELSE [sc EXCEPT !.rx = Append(@, line)]
    /\ UNCHANGED <<engineVars, gui, libVars>>

\* a second of the polling window passes
Tick ==
    /\ sc.pc = "poll"
    /\ sc.elapsed < Timeout
    /\ sc' = [sc EXCEPT !.elapsed = @ + 1]
    /\ UNCHANGED <<engineVars, gui, libVars>>

\* uart_manager.py:126-143: the open check, reset_input_buffer, write, flush
ScCall ==
    /\ sc.pc = "call"
    /\ \E fault \in {"none", "before_write", "after_write"} :
         sc' = IF ~sc.is_open
               THEN ScDone(FALSE, Some("UART not open"))
               ELSE IF fault = "before_write"
               THEN [ScDone(FALSE, Some("Error sending command: io"))
                        EXCEPT !.faulted = TRUE]
               ELSE IF fault = "after_write"
               THEN [ScDone(FALSE, Some("Error sending command: io"))
                        EXCEPT !.faulted = TRUE, !.rx = ResetInputBuffer(@),
                               !.stale = Len(ResetInputBuffer(sc.rx)),
                               !.tx = Append(@, sc.command)]
               ELSE IF ~sc.expect_response
               THEN [ScDone(TRUE, None)
                        EXCEPT !.rx = ResetInputBuffer(@),
                               !.stale = Len(ResetInputBuffer(sc.rx)),
                               !.tx = Append(@, sc.command)]
               ELSE [sc EXCEPT !.pc = "poll", !.rx = ResetInputBuffer(@),
                               !.stale = Len(ResetInputBuffer(sc.rx)),
                               !.tx = Append(@, sc.command), !.elapsed = 0]
    /\ UNCHANGED <<engineVars, gui, libVars>>

\* uart_manager.py:146-167: one evaluation of the loop condition and one
\* iteration of the poll loop
ScPoll ==
    /\ sc.pc = "poll"
    /\ \E fault \in BOOLEAN :
         sc' = IF ~WindowOpen(sc.elapsed)
               THEN ScDone(FALSE, Some("Timeout waiting for response"))
               ELSE IF sc.rx = <<>>
               THEN sc
               ELSE IF fault
               THEN [ScDone(FALSE, Some("Error sending command: io"))
                        EXCEPT !.faulted = TRUE]
               ELSE LET response == Strip(Head(sc.rx))
                        kind == Classify(response)
                        read == [sc EXCEPT
                                   !.rx = Tail(@),
                                   !.stale = IF @ > 0 THEN @ - 1 ELSE 0,
                                   !.readStale = @ \/ sc.stale > 0,
                                   !.lastRead = Some(response),
                                   !.readFinalBefore =
                                       \/ @
                                       \/ /\ sc.lastRead # None
                                          /\ \/ StartsWith(sc.lastRead[1], "OK")
                                             \/ StartsWith(sc.lastRead[1], "ERR"),
                                   !.heartbeatSkipped =
                                       @ \/ (StartsWith(response, "HEARTBEAT") /\ kind = "skip")]
                    IN  IF kind = "ok"
                        THEN [read EXCEPT !.pc = "done",
                                          !.ret = Some(ScRet(TRUE, Some(response)))]
                        ELSE IF kind = "err"
                        THEN [read EXCEPT !.pc = "done",
                                          !.ret = Some(ScRet(FALSE, Some(response)))]
                        ELSE read
    /\ UNCHANGED <<engineVars, gui, libVars>>

\* a call of send_command on a connection that is open or not
InitUart ==
    /\ EngineInit({<<>>}, {DefaultProfile})
    /\ progress_callback = "none"
    /\ \E open \in BOOLEAN, cmd \in {"TASK 1", "SLEEP DEEP"}, expect \in BOOLEAN :
         sc = [pc |-> "call", is_open |-> open, command |-> cmd,
               expect_response |-> expect, rx |-> <<>>, tx |-> <<>>,
               elapsed |-> 0, ret |-> None,
               \* history of the call
               lastRead |-> None, readFinalBefore |-> FALSE,
               heartbeatSkipped |-> FALSE, faulted |-> FALSE,
               stale |-> 0, staleFinal |-> FALSE, readStale |-> FALSE]
    /\ LibIdle

NextUart == DeviceEmit \/ Tick \/ ScCall \/ ScPoll

SpecUart == InitUart /\ [][NextUart]_vars

\* time passes, and the thread inside send_command keeps running
SpecUartFair ==
    SpecUart /\ WF_vars(Tick) /\ WF_vars(ScCall) /\ WF_vars(ScPoll)

\* C9: send_command resolves on the first line read whose text (decoded and
\* stripped, as the code returns it) starts with OK or ERR: no line is read
\* after such a line; an OK line makes it return (True, line), an ERR line
\* (False, line); a line of any other kind never ends the wait and is never
\* the response: after it the call ends only by the timeout or an exception.
C9_FirstOkErrResolves ==
    /\ ~sc.readFinalBefore
    /\ sc.lastRead # None =>
          LET line == sc.lastRead[1]
          IN  /\ StartsWith(line, "OK") =>
                    (sc.pc = "done" /\ sc.ret = Some(ScRet(TRUE, Some(line))))
              /\ StartsWith(line, "ERR") =>
                    (sc.pc = "done" /\ sc.ret = Some(ScRet(FALSE, Some(line))))
              /\ (~IsFinal(line) /\ sc.pc = "done") =>
                    sc.ret \in {Some(ScRet(FALSE, Some("Timeout waiting for response"))),
                                Some(ScRet(FALSE, Some("Error sending command: io")))}
    /\ (sc.pc = "done" /\ sc.expect_response /\ sc.ret[1].ok) =>
          (sc.lastRead # None /\ StartsWith(sc.lastRead[1], "OK"))

\* HEARTBEAT lines were read and discarded before the OK line resolved the call
C9_Witness ==
    /\ sc.pc = "done" /\ sc.heartbeatSkipped
    /\ sc.ret = Some(ScRet(TRUE, Some("OK 1")))

\* C10: send_command always returns; and when the connection was open, a
\* response was expected, no exception was raised and no line starting with
\* OK or ERR was read, it returns (False, "Timeout waiting for response"),
\* not before the polling window has passed.
C10_Timeout ==
    /\ <>(sc.pc = "done")
    /\ [](  (/\ sc.pc = "done" /\ sc.is_open /\ sc.expect_response /\ ~sc.faulted
             /\ (sc.lastRead = None \/ ~IsFinal(sc.lastRead[1])))
          => (/\ sc.ret = Some(ScRet(FALSE, Some("Timeout waiting for response")))
              /\ sc.elapsed >= Timeout))

\* the call timed out after discarding heartbeat lines
C10_Witness ==
    /\ sc.pc = "done" /\ sc.heartbeatSkipped
    /\ sc.ret = Some(ScRet(FALSE, Some("Timeout waiting for response")))

\* C11: the lines that were in the input buffer when send_command was called
\* (a stale OK or ERR line among them) are discarded before the command is
\* written: once the command is on the line no stale line is buffered, and no
\* stale line is ever read by the poll loop, so none is returned as the
\* response.
C11_FlushBeforeSend ==
    /\ sc.tx # <<>> => sc.stale = 0
    /\ ~sc.readStale

\* an OK or ERR line was buffered before the call, the command was written
\* and the call returned the ERR line the device sent afterwards
C11_Witness ==
    /\ sc.pc = "done" /\ sc.staleFinal /\ sc.tx = <<sc.command>>
    /\ sc.lastRead = Some("ERR 2")
    /\ sc.ret = Some(ScRet(FALSE, Some("ERR 2")))

-----------------------------------------------------------------------------
(* Pause, resume and stop during a pause *)

\* C12: while the pause flag is set and no stop is requested, a worker that
\* reaches the pause check reports PAUSED and stays in the pause wait without
\* starting a step; the pause changes neither step_index, repeat_count nor
\* the results; when the wait ends without a stop the status is RUNNING
\* again, and the step then executed is the one at the unchanged step_index.
C12_PauseResume ==
    [][/\ (pc \in {"pause_check", "pause_wait"} /\ pause_requested /\ ~stop_requested)
           => /\ pc' \in {pc, "pause_wait"}
              /\ pc' = "pause_wait" => status' = PAUSED
       /\ pc \in {"pause_check", "pause_wait", "pause_exit"}
           => /\ step_index' = step_index /\ repeat_count' = repeat_count
              /\ current_result' = current_result /\ executed' = executed
       /\ (pc = "pause_exit" /\ pc' = "exec" /\ ~stop_requested) => status' = RUNNING
       /\ (pc = "exec" /\ ~stop_requested) => status = RUNNING
       /\ executed' # executed
           => (pc = "exec" /\ executed' = Append(executed, step_index))]_vars

\* a run that was paused and resumed executed its three steps once each, in
\* order, and completed
C12_Witness ==
    /\ pc = "done" /\ pauseSeen /\ ~stop_requested
    /\ Len(sequence) = 3 /\ executed = <<0, 1, 2>>
    /\ status = COMPLETED /\ Ret1.status = COMPLETED

\* stop() called while the worker waits in PAUSED
StopWhilePaused == pc = "pause_wait" /\ status = PAUSED /\ Stop

InitPaused ==
    /\ EngineInit(SeqsUpTo(EngineSteps, MaxLen), {DefaultProfile})
    /\ progress_callback # "ok"
    /\ sc = ScIdle
    /\ LibIdle

\* the UI pauses the run, never resumes it, and stops it only during the
\* pause wait
NextPaused == Worker \/ Pause \/ StopWhilePaused

\* the worker thread keeps being scheduled
SpecPaused == InitPaused /\ [][NextPaused]_vars /\ WF_vars(Worker)

\* C13: when stop() is called while the worker waits in PAUSED and resume()
\* is never called, execute_sequence returns (as long as the model's cap on
\* executed steps leaves room for the step the code still runs).
C13_StopEndsPause ==
    (pc = "pause_wait" /\ stop_requested /\ Len(executed) < MaxExec) ~> (pc = "done")

\* a run stopped during its pause wait has returned
C13_Witness ==
    /\ pc = "done" /\ returned # None
    /\ pauseSeen /\ pause_requested /\ stop_requested /\ stopObserved

-----------------------------------------------------------------------------
(* Failures and exceptions *)

\* C14 as stated: a returned FAILED result has fail_count >= 1, or has no
\* step results and a non-empty error_message.
C14_FailedHasFailCount ==
    (pc = "done" /\ Ret1.status = FAILED)
        => \/ Ret1.fail_count >= 1
           \/ Ret1.step_results = <<>> /\ Ret1.error_message # ""

\* C14: a returned FAILED result has fail_count >= 1, or has no step results
\* and a non-empty error_message, or is the result of an exception that left
\* the step loop: then error_message is the exception's text, fail_count is
\* 0 and every step result is a success.
C14_FailedHasCause ==
    (pc = "done" /\ Ret1.status = FAILED)
        => \/ Ret1.fail_count >= 1
           \/ Ret1.step_results = <<>> /\ Ret1.error_message # ""
           \/ /\ excEscaped # None
              /\ Ret1.error_message = excEscaped[1]
              /\ Ret1.fail_count = 0
              /\ \A k \in 1..Len(Ret1.step_results) : Ret1.step_results[k].success

\* the progress callback raised at the second step: FAILED is returned with
\* one successful step result and fail_count 0
C14_Witness ==
    /\ pc = "done" /\ Ret1.status = FAILED /\ excEscaped = Some(CallbackError)
    /\ Len(Ret1.step_results) = 1 /\ Ret1.pass_count = 1 /\ Ret1.fail_count = 0
    /\ executed = <<0, 1>>

\* str.endswith
EndsWith(str, suffix) ==
    Len(str) >= Len(suffix)
        /\ SubSeq(str, Len(str) - Len(suffix) + 1, Len(str)) = suffix

\* the step's handler raises: its time.sleep is given a negative length
\* (qa_engine.py:289-292 for Sleep, 305-306 for Wait)
HandlerRaises(step) ==
    \/ /\ step.type = WAIT
       /\ SleepRaises(GetOr(step.params, "duration", 0))
    \/ /\ step.type = SLEEP
       /\ Get(step.params, "duration") # None
       /\ SleepRaises(Get(step.params, "duration")[1])

\* C15: a step whose handler raised has a StepResult with success = False
\* whose message carries the exception text; it is the last result, and the
\* run is FAILED.
C15_HandlerExceptionFails ==
    HasResult =>
        \A k \in 1..Len(SR) :
            HandlerRaises(SR[k].step) =>
                /\ ~SR[k].success
                /\ EndsWith(SR[k].message, SleepError)
                /\ k = Len(SR)
                /\ status = FAILED

\* C16: an exception that leaves the step loop never leaves
\* execute_sequence: the worker goes on to the return, the engine and the
\* result are FAILED with the exception's text as error_message, and that
\* result is what the call returns.
C16_NoExceptionCrosses ==
    /\ pc # "raised"
    /\ excEscaped # None =>
          /\ pc \in {"return", "done"}
          /\ status = FAILED
          /\ CR.status = FAILED /\ CR.error_message = excEscaped[1]
          /\ pc = "done" => returned = current_result

\* the progress callback raised at the first step and execute_sequence
\* returned a FAILED result carrying the exception's text
C16_Witness ==
    /\ pc = "done" /\ excEscaped = Some(CallbackError)
    /\ Ret1.status = FAILED /\ Ret1.error_message = CallbackError
    /\ Ret1.step_results = <<>> /\ executed = <<0>>

-----------------------------------------------------------------------------
(* The progress callback *)

\* C18: with a progress callback set, it is invoked exactly once per executed
\* step, in order; the k-th call carries the index of the k-th step executed
\* (the value of step_index before it is advanced) and total_steps =
\* len(sequence.steps).  Without a callback nothing is notified.
C18_ProgressPerStep ==
    IF progress_callback = "none"
    THEN notified = <<>>
    ELSE /\ Len(notified) = Len(executed)
         /\ \A k \in 1..Len(notified) :
               /\ notified[k].step_index = executed[k]
               /\ notified[k].total_steps = Len(sequence)

\* a completed run of [step, Repeat(1)]: four steps executed, four calls of
\* the callback, the third one for step 0 again
C18_Witness ==
    /\ pc = "done" /\ status = COMPLETED /\ progress_callback # "none"
    /\ Len(sequence) = 2 /\ executed = <<0, 1, 0, 1>>
    /\ Len(notified) = 4 /\ notified[3].step_index = 0 /\ notified[4].step_index = 1

-----------------------------------------------------------------------------
(* Two consecutive runs on one engine *)

\* the caller starts a second run of the same sequence on the same engine and
\* profile after the first has returned; the run's history starts afresh
Rerun ==
    /\ pc = "done"
    /\ run = "first"
    /\ run' = "second"
    /\ pc' = "idle"
    /\ executed' = <<>>
    /\ stopObserved' = FALSE
    /\ stopInRun' = FALSE
    /\ pauseSeen' = FALSE
    /\ notified' = <<>>
    /\ excEscaped' = None
    /\ stopCalls' = stopCalls \ {"in_run"}
    /\ UNCHANGED <<sequence, dut_profile, status, step_index, repeat_count,
                   stop_requested, pause_requested, progress_callback,
                   current_result, returned, uart, written, uartLog, sc, gui, libVars>>

\* the steps SpecRuns builds its sequences from
RunSteps == {TaskStep(1), PassStep, FailStep}

InitRuns ==
    /\ EngineInit(SeqsUpTo(RunSteps, MaxLen), {DefaultProfile})
    /\ progress_callback # "ok"
    /\ sc = ScIdle
    /\ LibIdle

NextRuns == Next \/ Rerun

SpecRuns == InitRuns /\ [][NextRuns]_vars

\* the engine's fields, the value returned and the transport
programVars ==
    <<status, step_index, repeat_count, stop_requested, pause_requested,
      current_result, returned, pc, uart, written>>

\* C19: a call of stop() when the stop flag is already set changes nothing;
\* a call after the run has returned changes neither the engine's status nor
\* the returned result; and a run observes the stop flag set only if stop()
\* was called during that run, after it reset the flags: a stop() called
\* after the previous run ended does not stop it.
C19_StopIdempotent ==
    [][/\ (Stop /\ stop_requested) => UNCHANGED programVars
       /\ (Stop /\ pc = "done")
            => UNCHANGED <<status, returned, current_result, pc>>
       /\ stopObserved' => "in_run" \in stopCalls']_vars

\* stop() was called after the first run had returned; the second run
\* executed both steps of its sequence and completed
C19_Witness ==
    /\ run = "second" /\ pc = "done"
    /\ "after_run" \in stopCalls /\ ~stop_requested /\ ~stopObserved
    /\ Len(sequence) = 2 /\ executed = <<0, 1>>
    /\ status = COMPLETED /\ Ret1.status = COMPLETED

\* C20: once a run has opened the UART, the connection stays open: in every
\* state after the open, through the return of the run with whatever
\* outcome, and through a second run with the same profile, the transport is
\* open and exactly one connection was ever opened and none closed.
C20_UartKeptOpen ==
    HasResult => (UartIsOpen(uart) /\ uartLog = <<"open">>)

\* two runs have written their command over the one connection opened by the
\* first; the second has returned
C20_Witness ==
    /\ run = "second" /\ pc = "done" /\ Ret1.status = COMPLETED
    /\ written = <<"TASK 1", "TASK 1">>
    /\ UartIsOpen(uart) /\ uartLog = <<"open">>

-----------------------------------------------------------------------------
(* The GUI host: ExecutionWidget and ExecutionThread,                       *)
(* ui/sections/qa_test_sequences_section.py.  All threads share the one     *)
(* QAEngine of the widget; a thread is "started" (QThread.start() called),  *)
(* then inside execute_sequence ("running", "paused", "returning"), then    *)
(* "finished" (its finished signal is queued for the UI thread).            *)

guiFrame ==
    <<sequence, dut_profile, step_index, repeat_count, progress_callback,
      current_result, returned, pc, uart, written, history, sc, libVars>>

\* the thread's call of execute_sequence is active
Active(t) == gui.threads[t] \in {"running", "paused", "returning"}

\* ExecutionWidget.on_start, 1492-1533 (a profile and a sequence are
\* selected): the Start button is clickable only while enabled
OnStart ==
    /\ gui.start_enabled
    /\ Len(gui.threads) < MaxThreads
    /\ gui' = [gui EXCEPT !.start_enabled = FALSE, !.pause_enabled = TRUE,
                          !.stop_enabled = TRUE,
                          !.threads = Append(@, "started")]
    /\ UNCHANGED <<status, stop_requested, pause_requested, guiFrame>>

\* ExecutionWidget.on_pause, 1535-1544
OnPause ==
    /\ gui.pause_enabled
    /\ pause_requested' = (status = RUNNING)
    /\ UNCHANGED <<status, stop_requested, gui, guiFrame>>

\* ExecutionWidget.on_stop, 1546-1553: the engine is asked to stop and the
\* Start button is enabled again at once
OnStop ==
    /\ gui.stop_enabled
    /\ stop_requested' = TRUE
    /\ gui' = [gui EXCEPT !.start_enabled = TRUE, !.pause_enabled = FALSE,
                          !.stop_enabled = FALSE]
    /\ UNCHANGED <<status, pause_requested, guiFrame>>

\* ExecutionWidget.on_finished, 1576-1584, run by the UI thread for a queued
\* finished signal
OnFinished ==
    /\ gui.finished # <<>>
    /\ gui' = [gui EXCEPT !.finished = Tail(@), !.start_enabled = TRUE,
                          !.pause_enabled = FALSE, !.stop_enabled = FALSE]
    /\ UNCHANGED <<status, stop_requested, pause_requested, guiFrame>>

\* ExecutionThread.run enters execute_sequence: qa_engine.py:108-126
ThreadBegin(t) ==
    /\ gui.threads[t] = "started"
    /\ stop_requested' = FlagsAtStart.stop
    /\ pause_requested' = FlagsAtStart.pause
    /\ \E opened \in BOOLEAN :
         IF opened
         THEN /\ status' = RUNNING
              /\ gui' = [gui EXCEPT !.threads[t] = "running"]
         ELSE /\ status' = FAILED
              /\ gui' = [gui EXCEPT !.threads[t] = "returning"]
    /\ UNCHANGED guiFrame

\* one iteration of the step loop, qa_engine.py:137-178: leave on stop, wait
\* on pause, else execute a step that is followed by more steps, is the last
\* one, or fails
ThreadLoop(t) ==
    /\ gui.threads[t] = "running"
    /\ IF stop_requested
       THEN /\ gui' = [gui EXCEPT !.threads[t] = "returning"]
            /\ status' = FinalStatus(status, stop_requested)
       ELSE IF pause_requested
       THEN /\ gui' = [gui EXCEPT !.threads[t] = "paused"]
            /\ status' = PAUSED
       ELSE \E outcome \in {"more", "last", "fail"} :
              /\ gui' = [gui EXCEPT !.threads[t] =
                            IF outcome = "more" THEN "running" ELSE "returning"]
              /\ status' = CASE outcome = "more" -> status
                              [] outcome = "last" -> FinalStatus(status, stop_requested)
                              [] outcome = "fail" -> FAILED
    /\ UNCHANGED <<stop_requested, pause_requested, guiFrame>>

\* the pause wait, qa_engine.py:140-143
ThreadPaused(t) ==
    /\ gui.threads[t] = "paused"
    /\ ~StillPaused(pause_requested, stop_requested)
    /\ status' = IF ~stop_requested THEN RUNNING ELSE status
    /\ gui' = [gui EXCEPT !.threads[t] = "running"]
    /\ UNCHANGED <<stop_requested, pause_requested, guiFrame>>

\* execute_sequence returns and ExecutionThread.run emits finished, 57-58
ThreadReturn(t) ==
    /\ gui.threads[t] = "returning"
    /\ gui' = [gui EXCEPT !.threads[t] = "finished", !.finished = Append(@, t)]
    /\ UNCHANGED <<status, stop_requested, pause_requested, guiFrame>>

InitGui ==
    /\ EngineInit({<<>>}, {DefaultProfile})
    /\ progress_callback = "ok"
    /\ sc = ScIdle
    /\ LibIdle

Threads == 1..Len(gui.threads)

Begin == \E t \in Threads : ThreadBegin(t)
Loop == \E t \in Threads : ThreadLoop(t)
Paused == \E t \in Threads : ThreadPaused(t)
Returns == \E t \in Threads : ThreadReturn(t)

NextGui ==
    \/ OnStart \/ OnPause \/ OnStop \/ OnFinished
    \/ Begin \/ Loop \/ Paused \/ Returns

SpecGui == InitGui /\ [][NextGui]_vars

\* C17: at most one ExecutionThread of the widget is inside
\* execute_sequence on the shared engine at any time.
C17_OneRunAtATime ==
    Cardinality({t \in Threads : Active(t)}) <= 1

-----------------------------------------------------------------------------
(* SequenceBuilder and the dict form of a Sequence, sequence_builder.py.    *)
(* A dict is a function from its keys; a StepType member is written as its  *)
(* value.                                                                   *)

StepTypes == {WAKE, TASK, SLEEP, WAIT, REPEAT, PASS, FAIL}

\* the dict with no keys
EmptyDict == [k \in {} |-> k]

\* Sequence(name, steps, description), sequence_builder.py:46-51
MakeSequence(name, steps, description) ==
    [name |-> name, steps |-> steps, description |-> description]

\* SequenceStep.to_dict: {'type': self.type.value, **self.params}
StepToDict(step) ==
    [k \in {"type"} \cup DOMAIN step.params |->
        IF k \in DOMAIN step.params THEN step.params[k] ELSE step.type]

\* mutant: the type key stays among the params
StepFromDictKeepsType(data) == Step(data["type"], data)

\* SequenceStep.from_dict (the type is one of StepType's values)
StepFromDict(data) ==
    Step(data["type"], [k \in DOMAIN data \ {"type"} |-> data[k]])

\* Sequence.to_dict
SequenceToDict(seq) ==
    [name |-> seq.name, description |-> seq.description,
     steps |-> [i \in 1..Len(seq.steps) |-> StepToDict(seq.steps[i])]]

\* Sequence.from_dict
SequenceFromDict(data) ==
    MakeSequence(data["name"],
                 [i \in 1..Len(GetOr(data, "steps", <<>>)) |->
                     StepFromDict(GetOr(data, "steps", <<>>)[i])],
                 GetOr(data, "description", ""))

\* sequence.steps.append(step), while the model has room
AppendStep(step) ==
    /\ builder.seq # None
    /\ Len(builder.seq[1].steps) < MaxLen
    /\ builder' = [builder EXCEPT !.seq[1].steps = Append(@, step)]
    /\ UNCHANGED <<engineVars, sc, gui, manager, apps>>

\* SequenceBuilder.create_sequence
CreateSequence ==
    /\ \E description \in {"", "smoke test"} :
         builder' = [builder EXCEPT
                        !.seq = Some(MakeSequence("seq", <<>>, description))]
    /\ UNCHANGED <<engineVars, sc, gui, manager, apps>>

\* SequenceBuilder.add_wake_step
AddWakeStep ==
    \E gpio \in {0, 17} : AppendStep(Step(WAKE, [gpio |-> gpio]))

\* SequenceBuilder.add_task_step
AddTaskStep ==
    \E task_number \in {1, 11}, description \in {"", "blink"} :
        AppendStep(Step(TASK, [number |-> task_number, description |-> description]))

\* SequenceBuilder.add_sleep_step
AddSleepStep ==
    \E mode \in {"deep", "LIGHT"}, duration \in {None, Some(5)} :
        AppendStep(Step(SLEEP,
            IF duration = None
            THEN [mode |-> Upper(mode)]
            ELSE [mode |-> Upper(mode), duration |-> duration[1],
                  unit |-> "seconds"]))

\* SequenceBuilder.add_wait_step
AddWaitStep ==
    \E duration \in {0, 250} :
        AppendStep(Step(WAIT, [duration |-> duration, unit |-> "ms"]))

\* SequenceBuilder.add_repeat_step
AddRepeatStep ==
    \E count \in {0, 2} : AppendStep(Step(REPEAT, [count |-> count]))

\* SequenceBuilder.add_pass_step: no message key for an empty message
AddPassStep ==
    \E message \in {"", "done"} :
        AppendStep(Step(PASS, IF message = "" THEN EmptyDict
                              ELSE [message |-> message]))

\* SequenceBuilder.add_fail_step
AddFailStep ==
    \E message \in {"", "bad"} :
        AppendStep(Step(FAIL, IF message = "" THEN EmptyDict
                              ELSE [message |-> message]))

InitBuilder ==
    /\ EngineInit({<<>>}, {DefaultProfile})
    /\ progress_callback = "none"
    /\ sc = ScIdle
    /\ builder = [seq |-> None]
    /\ manager = [pc |-> "unused"]
    /\ apps = [pc |-> "unused"]

NextBuilder ==
    \/ CreateSequence \/ AddWakeStep \/ AddTaskStep \/ AddSleepStep
    \/ AddWaitStep \/ AddRepeatStep \/ AddPassStep \/ AddFailStep

SpecBuilder == InitBuilder /\ [][NextBuilder]_vars

\* C21: every Sequence built by create_sequence and add_*_step calls is
\* equal to Sequence.from_dict of its to_dict: same name, description, step
\* order, step kinds and params.
C21_SequenceRoundTrip ==
    builder.seq # None =>
        LET seq == builder.seq[1]
            back == SequenceFromDict(SequenceToDict(seq))
        IN  /\ back = seq
            /\ back.name = seq.name /\ back.description = seq.description
            /\ Len(back.steps) = Len(seq.steps)
            /\ \A i \in 1..Len(seq.steps) :
                  /\ back.steps[i].type = seq.steps[i].type
                  /\ back.steps[i].params = seq.steps[i].params

\* a described sequence of a Sleep with a duration, a Pass without a message
\* and a Repeat
C21_Witness ==
    /\ builder.seq # None
    /\ builder.seq[1].description # ""
    /\ Len(builder.seq[1].steps) = 3
    /\ builder.seq[1].steps[1].type = SLEEP
    /\ "duration" \in DOMAIN builder.seq[1].steps[1].params
    /\ builder.seq[1].steps[2] = Step(PASS, EmptyDict)
    /\ builder.seq[1].steps[3].type = REPEAT

-----------------------------------------------------------------------------
(* Step handlers and the transport (SpecStep) *)

\* C22: a Wake step that has a gpio parameter succeeds with a message naming
\* that pin, whatever its value (0 included); a Wake step without one
\* succeeds naming the profile's gpio_wake when the profile has one.
C22_WakePin ==
    HasResult =>
        \A k \in 1..Len(SR) :
            SR[k].step.type = WAKE =>
                LET params == SR[k].step.params
                IN  /\ "gpio" \in DOMAIN params =>
                          /\ SR[k].success
                          /\ SR[k].message = "Wake via GPIO " \o ToString(params.gpio)
                    /\ ("gpio" \notin DOMAIN params /\ dut_profile.gpio_wake # None) =>
                          /\ SR[k].success
                          /\ SR[k].message =
                                "Wake via GPIO " \o ToString(dut_profile.gpio_wake[1])

\* what C23 says of a run of one Sleep step whose mode is rejected: the
\* StepResult is a failure with a message that says why, nothing is written
\* to the transport, and the handler lets no exception out (the only one
\* that can leave the step loop is the progress callback's own)
SleepRejected ==
    /\ written = <<>>
    /\ excEscaped \in {None, Some(CallbackError)} /\ pc # "raised"
    /\ HasResult =>
          \A k \in 1..Len(SR) :
              /\ ~SR[k].success
              /\ SR[k].message \in {InvalidMode, "Sleep command failed: " \o SleepError}
              /\ SR[k].message = InvalidMode
                    <=> ~HandlerRaises(SR[k].step)
    /\ (pc = "done" /\ HasResult /\ NoException)
          => (Len(SR) = 1 /\ Ret1.status = FAILED)

\* C23 as stated: a Sleep step whose mode is not one of ACTIVE, LIGHT, DEEP,
\* SHUTDOWN yields a failed StepResult with an explanatory message, writes no
\* command and raises nothing out of the engine.
C23_InvalidModeFails ==
    (sequence[1].type = SLEEP /\ "mode" \in DOMAIN sequence[1].params
        /\ sequence[1].params.mode \notin ValidModes)
    => SleepRejected

\* C23: a Sleep step whose mode, put in upper case, is not one of ACTIVE,
\* LIGHT, DEEP, SHUTDOWN yields a failed StepResult with an explanatory
\* message (the transport's "Invalid sleep mode" text, or the text of the
\* error of the delay that follows when the step has a negative duration),
\* writes no command and raises nothing out of the engine.
C23_InvalidModeFailsAnyCase ==
    (sequence[1].type = SLEEP /\ "mode" \in DOMAIN sequence[1].params
        /\ Upper(sequence[1].params.mode) \notin ValidModes)
    => SleepRejected

\* Sleep(HIBERNATE) has been run against an open UART: one failed result
\* with the transport's message, nothing written
C23_Witness ==
    /\ pc = "done" /\ HasResult /\ uart.is_open
    /\ sequence = <<Step(SLEEP, [mode |-> "HIBERNATE"])>>
    /\ Len(SR) = 1 /\ ~SR[1].success /\ SR[1].message = InvalidMode
    /\ written = <<>> /\ Ret1.status = FAILED

\* the commands of the engine's UART surface
EngineCommands ==
    {"TASK " \o ToString(n) : n \in 1..4} \cup {"SLEEP " \o m : m \in ValidModes}

\* C24: executing a step leaves the transport's state as it was; a Wake,
\* Wait, Repeat, Pass or Fail step writes nothing; a Task or Sleep step
\* writes at most one command, a TASK or SLEEP line, whatever the device
\* answers; and nothing but the execution of a step writes to the transport.
C24_NoUartTraffic ==
    [][/\ executed' # executed =>
            LET step == sequence[step_index + 1]
            IN  /\ uart' = uart
                /\ step.type \notin {TASK, SLEEP} => written' = written
                /\ \/ written' = written
                   \/ \E cmd \in EngineCommands : written' = Append(written, cmd)
       /\ written' # written => executed' # executed]_vars

\* a Wait step has been executed on an open UART and nothing was written
C24_Witness ==
    /\ pc = "done" /\ HasResult /\ uart.is_open
    /\ sequence = <<WaitStep>> /\ executed = <<0>>
    /\ Len(SR) = 1 /\ SR[1].success
    /\ written = <<>>

-----------------------------------------------------------------------------
(* DUTProfileManager and its profiles directory, dut_profile.py.            *)
(* manager.disk maps the stem of every <stem>.json file of the directory to *)
(* its JSON content; manager.profiles is self.profiles of the manager       *)
(* object, None while there is no manager; manager.last records the last    *)
(* call.  The directory has no subdirectories, and the disk takes every     *)
(* write and unlink the code asks for.                                      *)

\* DUTProfile, dut_profile.py:9-22
Profile(name, uart_port, uart_baud, gpio_wake, gpio_reset, tasks) ==
    [name |-> name, uart_port |-> uart_port, uart_baud |-> uart_baud,
     gpio_wake |-> gpio_wake, gpio_reset |-> gpio_reset, tasks |-> tasks]

\* JSON values
JsonNull == <<"null">>
JsonNumber(n) == <<"number", n>>
JsonString(str) == <<"string", str>>
JsonObject(members) == <<"object", members>>

\* an Optional[int] as JSON: None is null
JsonOptional(v) == IF v = None THEN JsonNull ELSE JsonNumber(v[1])

\* and back
FromJsonOptional(j) == IF j[1] = "null" THEN None ELSE Some(j[2])

\* json.dump(profile.to_dict()), dut_profile.py:24-26 and 96-97
DumpProfile(profile) ==
    [name |-> JsonString(profile.name),
     uart_port |-> JsonString(profile.uart_port),
     uart_baud |-> JsonNumber(profile.uart_baud),
     gpio_wake |-> JsonOptional(profile.gpio_wake),
     gpio_reset |-> JsonOptional(profile.gpio_reset),
     tasks |-> JsonObject([k \in DOMAIN profile.tasks |->
                              JsonString(profile.tasks[k])])]

\* DUTProfile.from_dict(json.load(f)), dut_profile.py:28-31 and 78-80
LoadProfile(content) ==
    Profile(content["name"][2], content["uart_port"][2], content["uart_baud"][2],
            FromJsonOptional(content["gpio_wake"]),
            FromJsonOptional(content["gpio_reset"]),
            [k \in DOMAIN content["tasks"][2] |-> content["tasks"][2][k][2]])

\* a dict with key set to value, and with key deleted
DictSet(d, key, value) ==
    [k \in DOMAIN d \cup {key} |-> IF k = key THEN value ELSE d[k]]
DictDel(d, key) == [k \in DOMAIN d \ {key} |-> d[k]]

\* profiles_dir / f"{name}.json" names a file of the directory itself: a
\* name with a slash points into a subdirectory, and there is none
InDirectory(name) == \A i \in 1..Len(name) : SubSeq(name, i, i) # "/"

\* DUTProfileManager.load
ManagerLoad(m, name) ==
    IF name \in DOMAIN m.disk THEN Some(LoadProfile(m.disk[name])) ELSE None

\* DUTProfileManager.get_profile
GetProfile(m, name) == Get(m.profiles[1], name)

\* mutant: the file is written and self.profiles is left as it was
ManagerSaveDiskOnly(m, profile) ==
    IF InDirectory(profile.name)
    THEN [m EXCEPT !.disk = DictSet(@, profile.name, DumpProfile(profile)),
                   !.last = [op |-> "save", profile |-> profile, ret |-> TRUE]]
    ELSE [m EXCEPT !.last = [op |-> "save", profile |-> profile, ret |-> FALSE]]

\* DUTProfileManager.save: open() raises for a path outside the directory
ManagerSave(m, profile) ==
    IF InDirectory(profile.name)
    THEN [m EXCEPT !.disk = DictSet(@, profile.name, DumpProfile(profile)),
                   !.profiles = Some(DictSet(@[1], profile.name, profile)),
                   !.last = [op |-> "save", profile |-> profile, ret |-> TRUE]]
    ELSE [m EXCEPT !.last = [op |-> "save", profile |-> profile, ret |-> FALSE]]

\* DUTProfileManager.delete
ManagerDelete(m, name) ==
    [m EXCEPT !.disk = DictDel(@, name),
              !.profiles = Some(DictDel(@[1], name)),
              !.last = [op |-> "delete", name |-> name, ret |-> TRUE]]

\* DUTProfileManager.load_all: self.profiles[profile.name] = profile for the
\* profile of every *.json file
LoadAll(disk) ==
    LET loaded == {LoadProfile(disk[f]) : f \in DOMAIN disk}
    IN  [n \in {q.name : q \in loaded} |-> CHOOSE q \in loaded : q.name = n]

\* the default profile of _ensure_mock_profile, dut_profile.py:149-162
MockProfile ==
    Profile("mock", "/dev/ttyUSB0", 115200, None, None,
            [k \in {"1", "2", "3", "4", "5"} |-> "Task " \o k])

\* mutant: the default profile is written over an existing one
EnsureMockProfileAlways(m) == ManagerSave(m, MockProfile)

\* DUTProfileManager._ensure_mock_profile
EnsureMockProfile(m) ==
    IF "mock" \notin DOMAIN m.profiles[1] THEN ManagerSave(m, MockProfile) ELSE m

\* DUTProfileManager.__init__ on the directory as it is
ManagerInit(m) ==
    [EnsureMockProfile([m EXCEPT !.profiles = Some(LoadAll(m.disk))])
        EXCEPT !.last = [op |-> "init", before |-> m.disk]]

\* the profiles the caller saves
ProfileInputs ==
    {Profile(name, "/dev/ttyACM0", baud, wake, None, tasks) :
        name \in {"mock", "dut", "lab/dut"}, baud \in {9600, 115200},
        wake \in {None, Some(0)},
        tasks \in {EmptyDict, [k \in {"1"} |-> "blink"]}}

\* the directories a manager can find: written by save, one file per name
Directories ==
    {[n \in names |-> DumpProfile(Profile(n, "/dev/ttyACM0", 9600, Some(0), None, EmptyDict))] :
        names \in SUBSET {"mock", "dut"}}

\* a DUTProfileManager is constructed (the program starts)
Construct ==
    /\ manager' = ManagerInit(manager)
    /\ UNCHANGED <<engineVars, sc, gui, builder, apps>>

Save ==
    /\ manager.profiles # None
    /\ \E profile \in ProfileInputs : manager' = ManagerSave(manager, profile)
    /\ UNCHANGED <<engineVars, sc, gui, builder, apps>>

Delete ==
    /\ manager.profiles # None
    /\ \E name \in {"mock", "dut", "lab/dut"} : manager' = ManagerDelete(manager, name)
    /\ UNCHANGED <<engineVars, sc, gui, builder, apps>>

InitProfiles ==
    /\ EngineInit({<<>>}, {DefaultProfile})
    /\ progress_callback = "none"
    /\ sc = ScIdle
    /\ builder = [pc |-> "unused"]
    /\ apps = [pc |-> "unused"]
    /\ \E disk \in Directories :
         manager = [disk |-> disk, profiles |-> None, last |-> [op |-> "none"]]

NextProfiles == Construct \/ Save \/ Delete

SpecProfiles == InitProfiles /\ [][NextProfiles]_vars

\* C25: after save(p) has returned True, load(p.name) and get_profile(p.name)
\* both give a profile equal to p in every field, whatever profile of that
\* name was there before; after delete(name) both give None.
C25_ProfileRoundTrip ==
    /\ (manager.last.op = "save" /\ manager.last.ret) =>
          LET prof == manager.last.profile
              loaded == ManagerLoad(manager, prof.name)
          IN  /\ loaded = Some(prof)
              /\ GetProfile(manager, prof.name) = Some(prof)
              /\ \A field \in DOMAIN prof : loaded[1][field] = prof[field]
    /\ manager.last.op = "delete" =>
          /\ ManagerLoad(manager, manager.last.name) = None
          /\ GetProfile(manager, manager.last.name) = None

\* a profile with a wake pin 0 and a task has been saved over the default
\* mock profile, which had neither that pin nor that task
C25_Witness ==
    /\ manager.last.op = "save" /\ manager.last.ret
    /\ manager.last.profile.name = "mock"
    /\ manager.last.profile.gpio_wake = Some(0)
    /\ manager.last.profile.tasks # EmptyDict
    /\ "dut" \in DOMAIN manager.disk
    /\ ManagerLoad(manager, "mock") = Some(manager.last.profile)

\* C26: after a DUTProfileManager is constructed, a profile named "mock" is
\* in self.profiles and in mock.json; a mock.json that was there is left as
\* it was, with self.profiles holding its profile; one that was not there
\* (the directory was empty, or the mock profile had been deleted) is the
\* default profile.
C26_MockProfileEnsured ==
    manager.last.op = "init" =>
        /\ GetProfile(manager, "mock") # None
        /\ ManagerLoad(manager, "mock") = GetProfile(manager, "mock")
        /\ IF "mock" \in DOMAIN manager.last.before
           THEN /\ manager.disk = manager.last.before
                /\ GetProfile(manager, "mock") =
                      Some(LoadProfile(manager.last.before["mock"]))
           ELSE /\ manager.disk = DictSet(manager.last.before, "mock",
                                          DumpProfile(MockProfile))
                /\ GetProfile(manager, "mock") = Some(MockProfile)

\* a manager constructed on a directory that kept only dut.json has put the
\* default mock profile back
C26_Witness ==
    /\ manager.last.op = "init"
    /\ DOMAIN manager.last.before = {"dut"}
    /\ DOMAIN manager.disk = {"dut", "mock"}
    /\ GetProfile(manager, "mock") = Some(MockProfile)
    /\ LoadProfile(manager.disk["dut"]).uart_baud = 115200

-----------------------------------------------------------------------------
(* The step loop of a run in which every step succeeds (SpecLoop): the      *)
(* worker alone, seen through step_index and repeat_count; the results and  *)
(* the history of the run are left out, so that a run that goes round for   *)
(* ever goes through finitely many states.                                  *)

\* steps that succeed whatever the device does
LoopSteps == {PassStep} \cup {RepeatStep(c) : c \in 0..MaxCount}

\* qa_engine.py:145-168 for a step that succeeds: step_index and
\* repeat_count move as RepeatJump says and the loop goes on
LoopStep ==
    /\ pc = "exec"
    /\ \A reply \in Replies :
          Dispatch(sequence[step_index + 1], dut_profile, uart, reply).success
    /\ LET j == RepeatJump(sequence[step_index + 1], step_index, repeat_count)
       IN  /\ step_index' = j.step_index
           /\ repeat_count' = j.repeat_count
    /\ pc' = AfterStepPc(TRUE)
    /\ UNCHANGED <<sequence, dut_profile, status, stop_requested, pause_requested,
                   progress_callback, current_result, returned, uart, written,
                   history, sc, gui, libVars>>

InitLoop ==
    /\ EngineInit(SeqsUpTo(LoopSteps, MaxLen), {DefaultProfile})
    /\ progress_callback = "none"
    /\ sc = ScIdle
    /\ LibIdle

NextLoop ==
    \/ Start \/ ResetFlags \/ OpenUart \/ LoopCond \/ PauseCheck \/ LoopStep
    \/ Finalize \/ Return

\* the worker thread keeps running
SpecLoop == InitLoop /\ [][NextLoop]_vars /\ WF_vars(NextLoop)

\* C27: a run in which every step succeeds and nobody pauses or stops ends:
\* execute_sequence returns, and when the UART could be opened the loop was
\* left with step_index >= len(steps) and the run is COMPLETED.
C27_Terminates ==
    <>(/\ pc = "done"
       /\ uart.is_open => (step_index >= Len(sequence) /\ status = COMPLETED))

-----------------------------------------------------------------------------
(* Result bookkeeping (Spec) *)

\* the number of StepResults of a list with the given success value
Count(results, success) ==
    Cardinality({k \in 1..Len(results) : results[k].success = success})

\* the counts of a SequenceResult agree with its step results
Counted(result) ==
    /\ result.pass_count + result.fail_count = Len(result.step_results)
    /\ result.pass_count = Count(result.step_results, TRUE)
    /\ result.fail_count = Count(result.step_results, FALSE)
    /\ result.fail_count <= 1

\* C28: whenever a step's result has been counted, pass_count + fail_count =
\* len(step_results), pass_count is the number of successful StepResults,
\* fail_count the number of failed ones, and fail_count <= 1; the same holds
\* of the result the run returns.
C28_Bookkeeping ==
    /\ HasResult => Counted(CR)
    /\ pc = "done" => Counted(Ret1)

\* a run of three steps has returned two passes and the failure that ended it
C28_Witness ==
    /\ pc = "done" /\ HasResult /\ Len(sequence) = 3
    /\ Len(Ret1.step_results) = 3
    /\ Ret1.pass_count = 2 /\ Ret1.fail_count = 1
    /\ ~Ret1.step_results[3].success

-----------------------------------------------------------------------------
(* stop() called while a run is announced (SpecStop) *)

\* the UI thread calls stop() at a moment at which a call of
\* execute_sequence is under way and get_status() reports RUNNING or PAUSED
StopWhileActive ==
    /\ pc \notin {"idle", "done"}
    /\ status \in {RUNNING, PAUSED}
    /\ Stop

\* the UI pauses and resumes at will, and stops only a run that reports
\* RUNNING or PAUSED
NextStop == Worker \/ StopWhileActive \/ Pause \/ Resume

SpecStop == Init /\ [][NextStop]_vars

\* C29: once stop() has been called during a run that reports RUNNING or
\* PAUSED, the stop flag stays set until execute_sequence has returned, and
\* the run does not end COMPLETED.
C29_StopNeverLost ==
    [][/\ (stop_requested /\ pc # "done") => stop_requested'
       /\ (stop_requested /\ pc' = "done") => status' # COMPLETED]_vars

-----------------------------------------------------------------------------
(* AppManager and BaseApp, features/smart_suggestions/app_manager.py and    *)
(* app_framework.py (SpecApps).                                             *)
(*                                                                          *)
(* apps.running_app is AppManager._running_app; apps.lock is _app_lock, a   *)
(* threading.Lock: None when free, else the thread that acquired it (a Lock *)
(* has no owner: whoever acquires it while it is held waits, the holder     *)
(* included).  apps.stack[t] is the call stack of thread t, innermost frame *)
(* last; apps.running[a] and apps.timer[a] are the fields running and       *)
(* update_timer of app a.                                                   *)

Callers == 1..MaxCallers

AppNames == {"tilt", "particles"}

Frame(fn, app, at) == [fn |-> fn, app |-> app, pc |-> at]

Top(t) == apps.stack[t][Len(apps.stack[t])]

InFrame(t, fn, at) ==
    /\ apps.stack[t] # <<>>
    /\ Top(t).fn = fn
    /\ Top(t).pc = at

\* the stack of t with its innermost frame moved to another statement
Goto(t, at) == [apps.stack[t] EXCEPT ![Len(apps.stack[t])].pc = at]

\* t calls fn(app) and will go on at the statement "after" when it returns
CallFrom(t, after, fn, app, at) == Append(Goto(t, after), Frame(fn, app, at))

\* the innermost call of t returns
ReturnFrom(t) == SubSeq(apps.stack[t], 1, Len(apps.stack[t]) - 1)

\* a thread that is not inside any call calls app.start(), app.stop() or
\* AppManager().stop_all_apps()
AppCall(t) ==
    /\ apps.stack[t] = <<>>
    /\ \E frame \in {Frame("start", a, "initialize") : a \in AppNames}
                      \cup {Frame("stop", a, "begin") : a \in AppNames}
                      \cup {Frame("stop_all_apps", "", "acquire")} :
         apps' = [apps EXCEPT !.stack[t] = <<frame>>]

\* BaseApp.start, app_framework.py:22-55
AppStart(t) ==
    \/ /\ InFrame(t, "start", "initialize")
       /\ \E initialized \in BOOLEAN :
            apps' = [apps EXCEPT !.stack[t] =
                        IF initialized
                        THEN CallFrom(t, "timer", "register_app", Top(t).app, "acquire")
                        ELSE ReturnFrom(t)]
    \/ /\ InFrame(t, "start", "timer")
       /\ apps' = [apps EXCEPT !.timer[Top(t).app] = TRUE,
                               !.running[Top(t).app] = TRUE,
                               !.stack[t] = ReturnFrom(t)]

\* BaseApp.stop, app_framework.py:57-83
AppStop(t) ==
    \/ /\ InFrame(t, "stop", "begin")
       /\ apps' = [apps EXCEPT !.running[Top(t).app] = FALSE,
                               !.timer[Top(t).app] = FALSE,
                               !.stack[t] = CallFrom(t, "end", "unregister_app",
                                                     Top(t).app, "acquire")]
    \/ /\ InFrame(t, "stop", "end")
       /\ apps' = [apps EXCEPT !.stack[t] = ReturnFrom(t)]

\* AppManager.register_app, app_manager.py:49-56
RegisterApp(t) ==
    \/ /\ InFrame(t, "register_app", "acquire")
       /\ apps.lock = None
       /\ apps' = [apps EXCEPT !.lock = Some(t), !.stack[t] = Goto(t, "stop_others")]
    \/ /\ InFrame(t, "register_app", "stop_others")
       /\ apps' = [apps EXCEPT !.stack[t] =
                      CallFrom(t, "assign", "stop_all_apps", "", "acquire")]
    \/ /\ InFrame(t, "register_app", "assign")
       /\ apps' = [apps EXCEPT !.running_app = Some(Top(t).app),
                               !.lock = None,
                               !.stack[t] = ReturnFrom(t)]

\* AppManager.stop_all_apps, app_manager.py:30-47
StopAllApps(t) ==
    \/ /\ InFrame(t, "stop_all_apps", "acquire")
       /\ apps.lock = None
       /\ apps' = [apps EXCEPT !.lock = Some(t), !.stack[t] = Goto(t, "check")]
    \/ /\ InFrame(t, "stop_all_apps", "check")
       /\ apps' = IF apps.running_app # None
                  THEN [apps EXCEPT !.running[apps.running_app[1]] = FALSE,
                                    !.stack[t] = CallFrom(t, "finally", "stop",
                                                          apps.running_app[1], "begin")]
                  ELSE [apps EXCEPT !.lock = None, !.stack[t] = ReturnFrom(t)]
    \/ /\ InFrame(t, "stop_all_apps", "finally")
       /\ apps' = [apps EXCEPT !.running_app = None, !.lock = None,
                               !.stack[t] = ReturnFrom(t)]

\* AppManager.unregister_app, app_manager.py:58-63
UnregisterApp(t) ==
    \/ /\ InFrame(t, "unregister_app", "acquire")
       /\ apps.lock = None
       /\ apps' = [apps EXCEPT !.lock = Some(t), !.stack[t] = Goto(t, "check")]
    \/ /\ InFrame(t, "unregister_app", "check")
       /\ apps' = [apps EXCEPT !.running_app =
                                  IF @ = Some(Top(t).app) THEN None ELSE @,
                               !.lock = None,
                               !.stack[t] = ReturnFrom(t)]

appsFrame == <<engineVars, sc, gui, builder, manager>>

Call == (\E t \in Callers : AppCall(t)) /\ UNCHANGED appsFrame
StartApp == (\E t \in Callers : AppStart(t)) /\ UNCHANGED appsFrame
StopApp == (\E t \in Callers : AppStop(t)) /\ UNCHANGED appsFrame
Register == (\E t \in Callers : RegisterApp(t)) /\ UNCHANGED appsFrame
StopAll == (\E t \in Callers : StopAllApps(t)) /\ UNCHANGED appsFrame
Unregister == (\E t \in Callers : UnregisterApp(t)) /\ UNCHANGED appsFrame

\* a step of thread t inside a call
Runs(t) ==
    (AppStart(t) \/ AppStop(t) \/ RegisterApp(t) \/ StopAllApps(t) \/ UnregisterApp(t))
        /\ UNCHANGED appsFrame

\* AppManager.__init__ (no app running, the lock free) and BaseApp.__init__
InitApps ==
    /\ EngineInit({<<>>}, {DefaultProfile})
    /\ progress_callback = "none"
    /\ sc = ScIdle
    /\ builder = [pc |-> "unused"]
    /\ manager = [pc |-> "unused"]
    /\ apps = [running_app |-> None, lock |-> None,
               stack |-> [t \in Callers |-> <<>>],
               running |-> [a \in AppNames |-> FALSE],
               timer |-> [a \in AppNames |-> FALSE]]

NextApps == Call \/ StartApp \/ StopApp \/ Register \/ StopAll \/ Unregister

\* every thread that can take a step inside a call takes it in the end
SpecApps ==
    InitApps /\ [][NextApps]_vars /\ \A t \in Callers : WF_vars(Runs(t))

\* C30: every call a thread makes on the AppManager or on an app returns
\* (register_app and stop_all_apps among them), and at most one app runs at
\* any time.
C30_AppManagerCallsReturn ==
    /\ \A t \in Callers : [](apps.stack[t] # <<>> => <>(apps.stack[t] = <<>>))
    /\ [](Cardinality({a \in AppNames : apps.running[a]}) <= 1)

====
